---- MODULE Spec2Model ----
(***************************************************************************)
(* A model of thalesians.adiutor.number_theory: the two prime generators,  *)
(* the imbalance functions, digit decomposition, centre of mass and the    *)
(* multi-base feature extractor.                                           *)
(*                                                                         *)
(* Each component has its own state variable (a record of the locals of    *)
(* the call being modelled) and its own specification; a component that a  *)
(* specification does not exercise stays at its Idle value.                *)
(*                                                                         *)
(* Python integers are unbounded, so no width is modelled.  A Python float *)
(* is modelled by the exact real it stands for (see Rat, Sqrt, NaN below): *)
(* rounding is not modelled, non-finiteness and errors are.                *)
(***************************************************************************)
EXTENDS Integers, Sequences, FiniteSets

VARIABLES gen, pairs, imb, dig, feat

vars == <<gen, pairs, imb, dig, feat>>

Idle == [pc |-> "idle"]

(***************************************************************************)
(* Bounds of the model.                                                    *)
(***************************************************************************)
MaxPrimeCount == 10    \* largest max_count given to primes()
MaxPrimeCand  == 40    \* largest candidate n primes() is followed to
MaxPairCount  == 7     \* largest max_count given to prime_pairs()
MaxPairCand   == 12    \* largest candidate n prime_pairs() is followed to
MaxAbs        == 4     \* imbalance operands range over -MaxAbs..MaxAbs
MaxNumber     == 40    \* digits / centre_of_mass numbers range over -1..MaxNumber
MaxBase       == 37    \* digits / centre_of_mass bases range over 1..MaxBase
MaxFeatNumber == 12    \* features: scalar arguments range over -1..MaxFeatNumber
MaxFeatBase   == 3     \* features: min_base, max_base range over 1..MaxFeatBase
MaxItem       == 5     \* features: elements of a collection range over 0..MaxItem
MaxColl       == 2     \* features: collections have 0..MaxColl elements

(***************************************************************************)
(* sympy.isprime, the primality oracle: n is prime iff n > 1 and no        *)
(* d in 2..n-1 divides it.                                                 *)
(***************************************************************************)
isprime(n) == n > 1 /\ \A d \in 2..(n - 1) : n % d # 0

(***************************************************************************)
(* primes(max_count=None), lines 125-134.                                  *)
(* has_max = FALSE is max_count=None.                                      *)
(***************************************************************************)
InitPrimes ==
    /\ \E hm \in BOOLEAN : \E m \in 0..MaxPrimeCount :
          /\ (~hm => m = 0)
          /\ gen = [pc |-> "loop", has_max |-> hm, max_count |-> m,
                    n |-> 2, count |-> 0, out |-> <<>>]
    /\ pairs = Idle /\ imb = Idle /\ dig = Idle /\ feat = Idle

\* line 130 (and 142, 146): if max_count is not None and count == max_count
AtMaxCountOff(has_max, max_count, count) == has_max /\ count = max_count + 1

AtMaxCount(has_max, max_count, count) == has_max /\ count = max_count

\* line 130: return
PrimesReturn ==
    /\ gen.pc = "loop"
    /\ AtMaxCount(gen.has_max, gen.max_count, gen.count)
    /\ gen' = [gen EXCEPT !.pc = "done"]
    /\ UNCHANGED <<pairs, imb, dig, feat>>

\* lines 131-134: n is prime: count it, yield it, go on to n + 1
PrimesYield ==
    /\ gen.pc = "loop"
    /\ ~AtMaxCount(gen.has_max, gen.max_count, gen.count)
    /\ gen.n <= MaxPrimeCand
    /\ isprime(gen.n)
    /\ gen' = [gen EXCEPT !.count = @ + 1, !.out = Append(@, gen.n), !.n = @ + 1]
    /\ UNCHANGED <<pairs, imb, dig, feat>>

\* lines 131, 134: n is not prime: go on to n + 1
PrimesSkip ==
    /\ gen.pc = "loop"
    /\ ~AtMaxCount(gen.has_max, gen.max_count, gen.count)
    /\ gen.n <= MaxPrimeCand
    /\ ~isprime(gen.n)
    /\ gen' = [gen EXCEPT !.n = @ + 1]
    /\ UNCHANGED <<pairs, imb, dig, feat>>

NextPrimes == PrimesReturn \/ PrimesYield \/ PrimesSkip

SpecPrimes == InitPrimes /\ [][NextPrimes]_vars

\* The generator runs whenever its consumer pulls; a consumer that keeps
\* pulling gives weak fairness of every step.
FairSpecPrimes == SpecPrimes /\ WF_vars(NextPrimes)

(***************************************************************************)
(* prime_pairs(max_count=None), lines 136-152.                             *)
(* pc "outer" is the head of the while loop (line 142), pc "for" the head  *)
(* of the for loop over primes (line 145), i the index of the next element *)
(* of primes the for loop takes.                                           *)
(***************************************************************************)
InitPairs ==
    /\ \E hm \in BOOLEAN : \E m \in 0..MaxPairCount :
          /\ (~hm => m = 0)
          /\ pairs = [pc |-> "outer", has_max |-> hm, max_count |-> m,
                      primes |-> <<>>, n |-> 2, count |-> 0, i |-> 1,
                      out |-> <<>>]
    /\ gen = Idle /\ imb = Idle /\ dig = Idle /\ feat = Idle

\* line 142: return
PairsReturn ==
    /\ pairs.pc = "outer"
    /\ AtMaxCount(pairs.has_max, pairs.max_count, pairs.count)
    /\ pairs' = [pairs EXCEPT !.pc = "done"]
    /\ UNCHANGED <<gen, imb, dig, feat>>

\* lines 143, 152: n is not prime
PairsSkip ==
    /\ pairs.pc = "outer"
    /\ ~AtMaxCount(pairs.has_max, pairs.max_count, pairs.count)
    /\ pairs.n <= MaxPairCand
    /\ ~isprime(pairs.n)
    /\ pairs' = [pairs EXCEPT !.n = @ + 1]
    /\ UNCHANGED <<gen, imb, dig, feat>>

\* lines 143, 145: n is prime: enter the for loop over the primes found so far
PairsEnter ==
    /\ pairs.pc = "outer"
    /\ ~AtMaxCount(pairs.has_max, pairs.max_count, pairs.count)
    /\ pairs.n <= MaxPairCand
    /\ isprime(pairs.n)
    /\ pairs' = [pairs EXCEPT !.pc = "for", !.i = 1]
    /\ UNCHANGED <<gen, imb, dig, feat>>

\* line 146: return from inside the for loop
PairsForReturn ==
    /\ pairs.pc = "for"
    /\ pairs.i <= Len(pairs.primes)
    /\ AtMaxCount(pairs.has_max, pairs.max_count, pairs.count)
    /\ pairs' = [pairs EXCEPT !.pc = "done"]
    /\ UNCHANGED <<gen, imb, dig, feat>>

\* the order in which line 145 iterates over primes: the list's own order
ForOrderReversed(primes, i) == primes[Len(primes) + 1 - i]

ForOrder(primes, i) == primes[i]

\* lines 147-148: count += 1; yield (n, prime)
PairsForYield ==
    /\ pairs.pc = "for"
    /\ pairs.i <= Len(pairs.primes)
    /\ ~AtMaxCount(pairs.has_max, pairs.max_count, pairs.count)
    /\ pairs' = [pairs EXCEPT !.count = @ + 1,
                              !.out = Append(@, <<pairs.n, ForOrder(pairs.primes, pairs.i)>>),
                              !.i = @ + 1]
    /\ UNCHANGED <<gen, imb, dig, feat>>

\* lines 149-152: the for loop is exhausted: count += 1; yield (n, n);
\* primes.append(n); n += 1.  max_count is not consulted here.
PairsSelfYield ==
    /\ pairs.pc = "for"
    /\ pairs.i > Len(pairs.primes)
    /\ pairs' = [pairs EXCEPT !.count = @ + 1,
                              !.out = Append(@, <<pairs.n, pairs.n>>),
                              !.primes = Append(@, pairs.n),
                              !.n = @ + 1,
                              !.pc = "outer"]
    /\ UNCHANGED <<gen, imb, dig, feat>>

NextPairs ==
    \/ PairsReturn \/ PairsSkip \/ PairsEnter
    \/ PairsForReturn \/ PairsForYield \/ PairsSelfYield

SpecPairs == InitPairs /\ [][NextPairs]_vars

(***************************************************************************)
(* Properties of the generators.                                           *)
(***************************************************************************)
StrictlyIncreasing(s) == \A i \in 1..Len(s) : \A j \in 1..Len(s) : i < j => s[i] < s[j]

\* C5: for every n >= 0, primes(max_count=n) yields exactly n values and then
\* terminates; the values are strictly increasing, each is prime, the first
\* (when there is one) is 2; with max_count=0 nothing is yielded.
C5_PrimesSafety ==
    /\ gen.has_max => Len(gen.out) <= gen.max_count
    /\ gen.pc = "done" => Len(gen.out) = gen.max_count
    /\ Len(gen.out) = gen.count
    /\ StrictlyIncreasing(gen.out)
    /\ \A i \in 1..Len(gen.out) : isprime(gen.out[i])
    /\ Len(gen.out) >= 1 => gen.out[1] = 2

\* C5: the properties above hold throughout, and every call of primes with
\* max_count=n terminates (having yielded exactly n values).
C5_PrimesExactlyN == []C5_PrimesSafety /\ (gen.has_max ~> gen.pc = "done")

C5_Witness ==
    /\ gen.pc = "done" /\ gen.has_max
    /\ gen.max_count = 5 /\ gen.out = <<2, 3, 5, 7, 11>>

\* C1: for every n >= 0, prime_pairs(max_count=n) emits exactly n pairs and
\* then terminates; it never emits an (n+1)-th pair.
C1_PairsNeverExceedMaxCount ==
    pairs.has_max => Len(pairs.out) <= pairs.max_count

\* The pairs with first member p, in the order the claim C6 gives them:
\* (p, q) for every prime q < p, q increasing, then (p, p).
RECURSIVE PairsBelow(_, _)
PairsBelow(p, q) ==
    IF q >= p THEN <<>>
    ELSE (IF isprime(q) THEN <<(<<p, q>>)>> ELSE <<>>) \o PairsBelow(p, q + 1)

RECURSIVE ExpectedPairs(_)
ExpectedPairs(p) ==
    IF p < 2 THEN <<>>
    ELSE ExpectedPairs(p - 1)
         \o (IF isprime(p) THEN PairsBelow(p, 2) \o <<(<<p, p>>)>> ELSE <<>>)

IsPrefix(s, t) == Len(s) <= Len(t) /\ s = SubSeq(t, 1, Len(s))

\* C6: prime_pairs emits, for the primes p in increasing order with none
\* skipped, (p, q) for every prime q < p in increasing order of q and then
\* (p, p); both members of every pair are prime, p >= q, no pair is emitted
\* twice; prime_pairs(max_count=6) yields (2,2),(3,2),(3,3),(5,2),(5,3),(5,5).
C6_PairsOrder ==
    /\ IsPrefix(pairs.out, ExpectedPairs(pairs.n))
    /\ \A k \in 1..Len(pairs.out) :
          /\ isprime(pairs.out[k][1]) /\ isprime(pairs.out[k][2])
          /\ pairs.out[k][1] >= pairs.out[k][2]
    /\ \A k \in 1..Len(pairs.out) : \A l \in 1..Len(pairs.out) :
          k # l => pairs.out[k] # pairs.out[l]
    /\ (pairs.pc = "done" /\ pairs.max_count = 6) =>
          pairs.out = << <<2, 2>>, <<3, 2>>, <<3, 3>>, <<5, 2>>, <<5, 3>>, <<5, 5>> >>

C6_Witness ==
    /\ pairs.pc = "done" /\ pairs.has_max /\ pairs.max_count = 6
    /\ Len(pairs.out) = 6 /\ pairs.out[5] = <<5, 3>>

(***************************************************************************)
(* Numbers.  A value is a record [k, n, d]: k is its Python type ("int",   *)
(* "float", "Fraction") or the exception raised in its place; n / d is the *)
(* exact value, in lowest terms with d > 0.                                *)
(***************************************************************************)
abs(x) == IF x < 0 THEN -x ELSE x

RECURSIVE gcd(_, _)
gcd(a, b) == IF b = 0 THEN abs(a) ELSE gcd(b, a % abs(b))

ZeroDivisionError == [k |-> "ZeroDivisionError", n |-> 0, d |-> 0]

PyInt(x) == [k |-> "int", n |-> x, d |-> 1]

\* n / d in lowest terms with a positive denominator (d # 0)
Lowest(kind, n, d) ==
    LET g  == gcd(n, d)
        sg == IF d < 0 THEN -g ELSE g
    IN  [k |-> kind, n |-> n \div sg, d |-> d \div sg]

\* int / int, Python's true division: a float, or ZeroDivisionError
TrueDivZeroIsZero(n, d) == IF d = 0 THEN [k |-> "float", n |-> 0, d |-> 1] ELSE Lowest("float", n, d)

TrueDiv(n, d) == IF d = 0 THEN ZeroDivisionError ELSE Lowest("float", n, d)

\* fractions.Fraction(n, d): raises ZeroDivisionError for d == 0, else
\* divides both by gcd, negated when d < 0
Fraction(n, d) == IF d = 0 THEN ZeroDivisionError ELSE Lowest("Fraction", n, d)

(***************************************************************************)
(* imbalance, imbalance_lowest_terms, imbnum, imbden: lines 159-169.       *)
(***************************************************************************)
AbsDiffSigned(p, q) == p - q

\* abs(p - q), the numerator at lines 160 and 163
AbsDiff(p, q) == abs(p - q)

imbalance(p, q) == TrueDiv(AbsDiff(p, q), p + q)

imbalance_lowest_terms(p, q) == Fraction(AbsDiff(p, q), p + q)

imbnum(p, q) ==
    LET f == imbalance_lowest_terms(p, q)
    IN  IF f.k = "Fraction" THEN PyInt(f.n) ELSE f

imbden(p, q) ==
    LET f == imbalance_lowest_terms(p, q)
    IN  IF f.k = "Fraction" THEN PyInt(f.d) ELSE f

InitImb ==
    /\ \E p \in (-MaxAbs)..MaxAbs : \E q \in (-MaxAbs)..MaxAbs :
          imb = [pc |-> "call", p |-> p, q |-> q, fn |-> "none", result |-> PyInt(0)]
    /\ gen = Idle /\ pairs = Idle /\ dig = Idle /\ feat = Idle

CallImbalance ==
    /\ imb.pc = "call"
    /\ imb' = [imb EXCEPT !.pc = "done", !.fn = "imbalance",
                          !.result = imbalance(imb.p, imb.q)]
    /\ UNCHANGED <<gen, pairs, dig, feat>>

CallImbalanceLowestTerms ==
    /\ imb.pc = "call"
    /\ imb' = [imb EXCEPT !.pc = "done", !.fn = "imbalance_lowest_terms",
                          !.result = imbalance_lowest_terms(imb.p, imb.q)]
    /\ UNCHANGED <<gen, pairs, dig, feat>>

CallImbnum ==
    /\ imb.pc = "call"
    /\ imb' = [imb EXCEPT !.pc = "done", !.fn = "imbnum",
                          !.result = imbnum(imb.p, imb.q)]
    /\ UNCHANGED <<gen, pairs, dig, feat>>

CallImbden ==
    /\ imb.pc = "call"
    /\ imb' = [imb EXCEPT !.pc = "done", !.fn = "imbden",
                          !.result = imbden(imb.p, imb.q)]
    /\ UNCHANGED <<gen, pairs, dig, feat>>

NextImb == CallImbalance \/ CallImbalanceLowestTerms \/ CallImbnum \/ CallImbden

SpecImb == InitImb /\ [][NextImb]_vars

\* the value lies in [0, 1)
InUnitInterval(v) == v.k \in {"float", "Fraction"} /\ 0 <= v.n /\ v.n < v.d

\* C3 as stated: for all integers p, q with p + q != 0, of the same sign or
\* of mixed sign, imbalance(p, q) = |p - q| / (p + q) lies in [0, 1).
C3_ImbalanceInUnitInterval ==
    (imb.pc = "done" /\ imb.fn = "imbalance" /\ imb.p + imb.q # 0)
        => InUnitInterval(imb.result)

\* C3 as amended: for all integers p > 0 and q > 0, 0 <= |p - q| < p + q, so
\* the exact ratio |p - q| / (p + q), as imbalance and imbalance_lowest_terms
\* compute it, lies in [0, 1).
C3_ImbalanceOfPositivesInUnitInterval ==
    (imb.pc = "done" /\ imb.fn \in {"imbalance", "imbalance_lowest_terms"}
                     /\ imb.p > 0 /\ imb.q > 0)
        => /\ InUnitInterval(imb.result)
           /\ imb.result.n * (imb.p + imb.q) = imb.result.d * abs(imb.p - imb.q)

C3_Witness ==
    /\ imb.pc = "done" /\ imb.fn = "imbalance" /\ imb.p = 1 /\ imb.q = 3
    /\ imb.result = [k |-> "float", n |-> 1, d |-> 2]

\* C9: for all integers p, q with p + q == 0, each of imbalance,
\* imbalance_lowest_terms, imbnum and imbden fails with a division-by-zero
\* error; none of them returns a value.
C9_ZeroSumRaises ==
    (imb.pc = "done" /\ imb.p + imb.q = 0) => imb.result = ZeroDivisionError

C9_Witness ==
    /\ imb.pc = "done" /\ imb.fn = "imbden" /\ imb.p = 3 /\ imb.q = -3
    /\ imb.result.k = "ZeroDivisionError"

(***************************************************************************)
(* digits(number, base), lines 177-184, as a function and, below, as the   *)
(* loop it is.                                                             *)
(***************************************************************************)
ValueError == [k |-> "ValueError", n |-> 0, d |-> 0]

RECURSIVE SeqSum(_)
SeqSum(s) == IF s = <<>> THEN 0 ELSE Head(s) + SeqSum(Tail(s))

PushDigitFront(ds, x) == <<x>> \o ds

\* line 182: digits.append(number % base)
PushDigit(ds, x) == Append(ds, x)

\* lines 180-184, for number >= 0 and base >= 2: least-significant digit first
RECURSIVE DigitList(_, _)
DigitList(number, base) ==
    IF number > 0 THEN <<number % base>> \o DigitList(number \div base, base)
    ELSE <<>>

\* digits(number, base): [err, val]
digits(number, base) ==
    IF base < 2 THEN [err |-> "ValueError", val |-> <<>>]
    ELSE IF number < 0 THEN [err |-> "ValueError", val |-> <<>>]
    ELSE [err |-> "", val |-> DigitList(number, base)]

(***************************************************************************)
(* numpy.base_repr(number, base), called at line 173: the string of the    *)
(* digits, most-significant first, as the sequence of its characters; the  *)
(* character of digit v is v, the character '-' is Minus.  numpy's digit   *)
(* alphabet has BaseReprDigits characters and base_repr raises ValueError  *)
(* for a larger base.                                                      *)
(***************************************************************************)
BaseReprDigits == 36

Minus == -1

RECURSIVE Reverse(_)
Reverse(s) == IF s = <<>> THEN <<>> ELSE Append(Reverse(Tail(s)), Head(s))

base_repr(number, base) ==
    IF base > BaseReprDigits \/ base < 2 THEN [err |-> "ValueError", val |-> <<>>]
    ELSE LET res  == DigitList(abs(number), base)
             sres == IF number < 0 THEN Append(res, Minus) ELSE res
         IN  [err |-> "", val |-> Reverse(IF sres = <<>> THEN <<0>> ELSE sres)]

(***************************************************************************)
(* centre_of_mass(number, base), lines 171-175.                            *)
(***************************************************************************)
\* line 174: the 0-indexed positions of the characters other than '0'
RECURSIVE Positions(_, _)
Positions(str, i) ==
    IF i >= Len(str) THEN <<>>
    ELSE (IF str[i + 1] # 0 THEN <<i>> ELSE <<>>) \o Positions(str, i + 1)

\* line 175
MeanOrZero(positions) ==
    IF positions # <<>> THEN TrueDiv(SeqSum(positions), Len(positions)) ELSE PyInt(0)

centre_of_mass(number, base) ==
    IF base < 2 THEN ValueError
    ELSE LET str == base_repr(number, base)
         IN  IF str.err # "" THEN ValueError
             ELSE MeanOrZero(Positions(str.val, 0))

(***************************************************************************)
(* The calls of digits and centre_of_mass.  pc "loop" is the head of the   *)
(* while loop at line 181; number is the loop variable, arg the argument.  *)
(***************************************************************************)
InitDigits ==
    /\ \E number \in (-1)..MaxNumber : \E base \in 1..MaxBase :
          dig = [pc |-> "call", fn |-> "none", arg |-> number, base |-> base,
                 number |-> number, digits |-> <<>>, err |-> "", com |-> PyInt(0)]
    /\ gen = Idle /\ pairs = Idle /\ imb = Idle /\ feat = Idle

\* lines 178-179: the two validations
DigitsRaise ==
    /\ dig.pc = "call"
    /\ dig.base < 2 \/ dig.number < 0
    /\ dig' = [dig EXCEPT !.pc = "done", !.fn = "digits", !.err = "ValueError"]
    /\ UNCHANGED <<gen, pairs, imb, feat>>

\* line 180: digits = []
DigitsEnter ==
    /\ dig.pc = "call"
    /\ ~(dig.base < 2) /\ ~(dig.number < 0)
    /\ dig' = [dig EXCEPT !.pc = "loop", !.fn = "digits", !.digits = <<>>]
    /\ UNCHANGED <<gen, pairs, imb, feat>>

\* lines 181-183: one iteration of the while loop
DigitsLoop ==
    /\ dig.pc = "loop"
    /\ dig.number > 0
    /\ dig' = [dig EXCEPT !.digits = PushDigit(@, dig.number % dig.base),
                          !.number = @ \div dig.base]
    /\ UNCHANGED <<gen, pairs, imb, feat>>

\* line 184: return digits
DigitsReturn ==
    /\ dig.pc = "loop"
    /\ ~(dig.number > 0)
    /\ dig' = [dig EXCEPT !.pc = "done"]
    /\ UNCHANGED <<gen, pairs, imb, feat>>

CallCentreOfMass ==
    /\ dig.pc = "call"
    /\ dig' = [dig EXCEPT !.pc = "done", !.fn = "centre_of_mass",
                          !.com = centre_of_mass(dig.arg, dig.base)]
    /\ UNCHANGED <<gen, pairs, imb, feat>>

NextDigits ==
    \/ DigitsRaise \/ DigitsEnter \/ DigitsLoop \/ DigitsReturn
    \/ CallCentreOfMass

SpecDigits == InitDigits /\ [][NextDigits]_vars

\* A call that has started runs to its end: nothing else is scheduled.
FairSpecDigits == SpecDigits /\ WF_vars(NextDigits)

\* sum over i of d[i] * base^i, i counted from 0
RECURSIVE Reconstruct(_, _, _)
Reconstruct(d, base, i) ==
    IF i >= Len(d) THEN 0
    ELSE d[i + 1] * base ^ i + Reconstruct(d, base, i + 1)

\* C7: for every number >= 0 and base >= 2, digits(number, base) terminates
\* and returns a sequence d, least-significant digit first, with every
\* element in [0, base) and sum of d[i] * base^i equal to number; d is empty
\* if and only if number == 0.
C7_DigitsSafety ==
    (dig.pc = "done" /\ dig.fn = "digits" /\ dig.arg >= 0 /\ dig.base >= 2)
        => /\ dig.err = ""
           /\ \A i \in 1..Len(dig.digits) : dig.digits[i] \in 0..(dig.base - 1)
           /\ Reconstruct(dig.digits, dig.base, 0) = dig.arg
           /\ (dig.digits = <<>>) <=> (dig.arg = 0)
           /\ digits(dig.arg, dig.base) = [err |-> "", val |-> dig.digits]

\* C7: the properties above hold of what digits returns, and the while loop
\* of digits terminates.
C7_DigitsRoundTrip == []C7_DigitsSafety /\ ((dig.pc = "loop") ~> (dig.pc = "done"))

C7_Witness ==
    /\ dig.pc = "done" /\ dig.fn = "digits" /\ dig.arg = 38 /\ dig.base = 3
    /\ dig.digits = <<2, 0, 1, 1>>

\* the mean of (L - 1 - i) over the indices i (from 0) of the non-zero
\* elements of d, as the pair <<sum, how many>>
NonZeroIndices(d) == {i \in 0..(Len(d) - 1) : d[i + 1] # 0}

RECURSIVE SumMirrored(_, _)
SumMirrored(d, i) ==
    IF i >= Len(d) THEN 0
    ELSE (IF d[i + 1] # 0 THEN Len(d) - 1 - i ELSE 0) + SumMirrored(d, i + 1)

IsMeanOfMirroredPositions(v, d) ==
    IF NonZeroIndices(d) = {}
    THEN v.k \in {"int", "float"} /\ v.n = 0
    ELSE /\ v.k = "float"
         /\ v.n * Cardinality(NonZeroIndices(d)) = v.d * SumMirrored(d, 0)

\* C8: for every number >= 0 and valid base (base >= 2), centre_of_mass is the
\* mean of (L - 1 - i) over the indices i with digits(number, base)[i] != 0,
\* L = len(digits(number, base)); it is 0 when there is no non-zero digit.
C8_CentreOfMassIsMean ==
    (dig.pc = "done" /\ dig.fn = "centre_of_mass" /\ dig.arg >= 0 /\ dig.base >= 2)
        => IsMeanOfMirroredPositions(dig.com, DigitList(dig.arg, dig.base))

\* The same for the bases numpy.base_repr has digits for.
CentreOfMassIsMeanUpToBase36 ==
    (dig.pc = "done" /\ dig.fn = "centre_of_mass" /\ dig.arg >= 0
                     /\ dig.base >= 2 /\ dig.base <= BaseReprDigits)
        => IsMeanOfMirroredPositions(dig.com, DigitList(dig.arg, dig.base))

(***************************************************************************)
(* Floats of the feature mapping.  Float(n, d) is n / d; Sqrt(n, d) is     *)
(* sign(n) * sqrt(|n| / d); NaN is numpy's nan.                            *)
(***************************************************************************)
Float(n, d) == Lowest("float", n, d)

NaN == [k |-> "nan", n |-> 0, d |-> 0]

Sqrt(n, d) == IF n = 0 THEN Float(0, 1) ELSE Lowest("sqrt", n, d)

\* numpy.isfinite
isfinite(v) == v.k # "nan"

(***************************************************************************)
(* The statistics of lines 203-207 over a list of digits x, from the sums  *)
(* M_k of (n * x_i - sum(x))^k: the k-th central moment is M_k / n^(k+1).  *)
(***************************************************************************)
RECURSIVE CentralSum(_, _, _, _)
CentralSum(x, n, total, k) ==
    IF x = <<>> THEN 0
    ELSE (n * Head(x) - total) ^ k + CentralSum(Tail(x), n, total, k)

M(x, k) == CentralSum(x, Len(x), SeqSum(x), k)

\* sorted(x), by insertion
RECURSIVE Insert(_, _)
Insert(s, v) ==
    IF s = <<>> THEN <<v>>
    ELSE IF v <= Head(s) THEN <<v>> \o s
    ELSE <<Head(s)>> \o Insert(Tail(s), v)

RECURSIVE Sorted(_)
Sorted(x) == IF x = <<>> THEN <<>> ELSE Insert(Sorted(Tail(x)), Head(x))

\* numpy.mean: nan for an empty list
mean(x) == IF x = <<>> THEN NaN ELSE Float(SeqSum(x), Len(x))

\* numpy.median: the middle element, or the mean of the two middle ones
median(x) ==
    LET s == Sorted(x)
        n == Len(x)
    IN  IF n = 0 THEN NaN
        ELSE IF n % 2 = 1 THEN Float(s[(n + 1) \div 2], 1)
        ELSE Float(s[n \div 2] + s[n \div 2 + 1], 2)

\* numpy.std: the population standard deviation sqrt(m2)
std(x) == IF x = <<>> THEN NaN ELSE Sqrt(M(x, 2), Len(x) ^ 3)

\* scipy.stats.skew: m3 / m2^1.5, nan when the digits do not vary
skew(x) ==
    IF x = <<>> \/ M(x, 2) = 0 THEN NaN
    ELSE LET m3 == M(x, 3)
         IN  Sqrt((IF m3 < 0 THEN -1 ELSE 1) * Len(x) * m3 * m3, M(x, 2) ^ 3)

\* scipy.stats.kurtosis (Fisher): m4 / m2^2 - 3, nan when the digits do not vary
kurtosis(x) ==
    IF x = <<>> \/ M(x, 2) = 0 THEN NaN
    ELSE Float(Len(x) * M(x, 4) - 3 * M(x, 2) ^ 2, M(x, 2) ^ 2)

(***************************************************************************)
(* _features_number(number, min_base, max_base), lines 193-210.            *)
(* A key f'name_{base}' is the pair <<name, base>>, the key 'number' is    *)
(* <<"number">>.  The result is [err, val]: the exception raised, or ""    *)
(* and the mapping.                                                        *)
(***************************************************************************)
FeatureNames ==
    {"normalized_modulo", "number_of_digits", "centre_of_mass",
     "normalized_centre_of_mass", "digits_mean", "digits_median", "digits_std",
     "digits_skew", "digits_kurtosis"}

BaseRangeEitherWay(min_base, max_base) ==
    IF min_base > max_base THEN max_base..min_base ELSE min_base..max_base

\* line 195: range(min_base, max_base+1)
BaseRange(min_base, max_base) == min_base..max_base

\* line 202: number_centre_of_mass / number_of_digits, both Python numbers:
\* ZeroDivisionError when number_of_digits is 0
NormalizedCentreOfMass(number, base) ==
    TrueDiv(centre_of_mass(number, base).n,
            centre_of_mass(number, base).d * Len(digits(number, base).val))

\* lines 196-202: the exception the body of the loop raises for this base
BaseError(number, base) ==
    IF digits(number, base).err # "" THEN digits(number, base).err
    ELSE IF centre_of_mass(number, base).k = "ValueError" THEN "ValueError"
    ELSE IF NormalizedCentreOfMass(number, base) = ZeroDivisionError
         THEN "ZeroDivisionError"
    ELSE ""

\* the exception of the first base, in the order of the range, that raises
FirstError(number, bases) ==
    LET bad == {b \in bases : BaseError(number, b) # ""}
    IN  IF bad = {} THEN ""
        ELSE BaseError(number, CHOOSE b \in bad : \A c \in bad : b <= c)

\* lines 199-207: the value stored under f'{name}_{base}'
Feature(number, name, base) ==
    LET ds  == digits(number, base).val
        com == centre_of_mass(number, base)
    IN  CASE name = "normalized_modulo" -> Float(number % base, base)
          [] name = "number_of_digits" -> Float(Len(ds), 1)
          [] name = "centre_of_mass" -> com
          [] name = "normalized_centre_of_mass" -> NormalizedCentreOfMass(number, base)
          [] name = "digits_mean" -> mean(ds)
          [] name = "digits_median" -> median(ds)
          [] name = "digits_std" -> std(ds)
          [] name = "digits_skew" -> skew(ds)
          [] name = "digits_kurtosis" -> kurtosis(ds)

\* lines 208-209: a value that is not finite becomes 0.
Sanitize(v) == IF ~isfinite(v) THEN Float(0, 1) ELSE v

NumberKey == <<"number">>

FeatureKeys(bases) == {NumberKey} \cup {<<name, b>> : name \in FeatureNames, b \in bases}

_features_number(number, min_base, max_base) ==
    LET bases == BaseRange(min_base, max_base)
        e     == FirstError(number, bases)
    IN  IF e # "" THEN [err |-> e, val |-> [key \in {} |-> NaN]]
        ELSE [err |-> "",
              val |-> [key \in FeatureKeys(bases) |->
                          IF key = NumberKey THEN Sanitize(Float(number, 1))
                          ELSE Sanitize(Feature(number, key[1], key[2]))]]

(***************************************************************************)
(* features(number, min_base, max_base), lines 186-191, and                *)
(* _features_iterable, lines 212-221.  The argument is [iterable, number,  *)
(* items]: a scalar number, or the collection items.  pc "iter" is the     *)
(* head of the for loop at line 215, index the index of the next element,  *)
(* features the mapping iterable_features, log the messages logged.        *)
(***************************************************************************)
LogEvery == 100

\* checks.is_iterable
is_iterable(arg) == arg.iterable

EmptyMapping == [key \in {} |-> <<>>]

NoResult == [err |-> "", val |-> EmptyMapping]

Collections == UNION {[1..len -> 0..MaxItem] : len \in 0..MaxColl}

Arguments ==
    {[iterable |-> FALSE, number |-> x, items |-> <<>>] : x \in (-1)..MaxFeatNumber}
    \cup {[iterable |-> TRUE, number |-> 0, items |-> c] : c \in Collections}

InitFeatures ==
    /\ \E arg \in Arguments : \E min_base \in 1..MaxFeatBase : \E max_base \in 1..MaxFeatBase :
          feat = [pc |-> "call", arg |-> arg, min_base |-> min_base,
                  max_base |-> max_base, index |-> 0, features |-> EmptyMapping,
                  log |-> <<>>, result |-> NoResult]
    /\ gen = Idle /\ pairs = Idle /\ imb = Idle /\ dig = Idle

\* lines 189-191: a scalar goes to _features_number
FeaturesScalar ==
    /\ feat.pc = "call"
    /\ ~is_iterable(feat.arg)
    /\ feat' = [feat EXCEPT !.pc = "done",
                            !.result = _features_number(feat.arg.number, feat.min_base,
                                                        feat.max_base)]
    /\ UNCHANGED <<gen, pairs, imb, dig>>

\* lines 187-188, 213-214: a collection goes to _features_iterable
FeaturesIterable ==
    /\ feat.pc = "call"
    /\ is_iterable(feat.arg)
    /\ feat' = [feat EXCEPT !.pc = "iter", !.index = 0, !.features = EmptyMapping,
                            !.log = Append(@, <<"In _features_iterable", Len(feat.arg.items)>>)]
    /\ UNCHANGED <<gen, pairs, imb, dig>>

\* line 216: the progress message of every LogEvery-th element
Logged(log, index, len) ==
    IF index % LogEvery = 0 THEN Append(log, <<"Computing features", index + 1, len>>)
    ELSE log

AddValueFront(values, v) == <<v>> \o values

\* line 220: iterable_features[key].append(number_features[key])
AddValue(values, v) == Append(values, v)

\* lines 218-220: every key of number_features gets its value appended, to
\* an empty list when the key is new
Accumulate(iterable_features, number_features) ==
    [key \in DOMAIN iterable_features \cup DOMAIN number_features |->
        IF key \in DOMAIN number_features
        THEN AddValue(IF key \in DOMAIN iterable_features
                      THEN iterable_features[key] ELSE <<>>,
                      number_features[key])
        ELSE iterable_features[key]]

\* lines 215-220: one element; an exception of _features_number ends the call
IterableStep ==
    /\ feat.pc = "iter"
    /\ feat.index < Len(feat.arg.items)
    /\ LET nf == _features_number(feat.arg.items[feat.index + 1], feat.min_base,
                                  feat.max_base)
           lg == Logged(feat.log, feat.index, Len(feat.arg.items))
       IN  IF nf.err # ""
           THEN feat' = [feat EXCEPT !.pc = "done", !.log = lg,
                                     !.result = [err |-> nf.err, val |-> EmptyMapping]]
           ELSE feat' = [feat EXCEPT !.log = lg, !.index = @ + 1,
                                     !.features = Accumulate(@, nf.val)]
    /\ UNCHANGED <<gen, pairs, imb, dig>>

\* line 221: return iterable_features
IterableReturn ==
    /\ feat.pc = "iter"
    /\ feat.index = Len(feat.arg.items)
    /\ feat' = [feat EXCEPT !.pc = "done",
                            !.result = [err |-> "", val |-> feat.features]]
    /\ UNCHANGED <<gen, pairs, imb, dig>>

NextFeatures == FeaturesScalar \/ FeaturesIterable \/ IterableStep \/ IterableReturn

SpecFeatures == InitFeatures /\ [][NextFeatures]_vars

\* C2: for every number >= 0 and every range 2 <= min_base <= max_base,
\* features(number, min_base, max_base) returns a mapping without raising,
\* and every value of the mapping is finite.
C2_FeaturesFiniteNoError ==
    (feat.pc = "done" /\ ~feat.arg.iterable /\ feat.arg.number >= 0
        /\ 2 <= feat.min_base /\ feat.min_base <= feat.max_base)
        => /\ feat.result.err = ""
           /\ \A key \in DOMAIN feat.result.val : isfinite(feat.result.val[key])

\* The same for number >= 1: the sanitization pass leaves nothing non-finite.
FeaturesOfPositiveFinite ==
    (feat.pc = "done" /\ ~feat.arg.iterable /\ feat.arg.number >= 1
        /\ 2 <= feat.min_base /\ feat.min_base <= feat.max_base)
        => /\ feat.result.err = ""
           /\ DOMAIN feat.result.val = FeatureKeys(feat.min_base..feat.max_base)
           /\ \A key \in DOMAIN feat.result.val : isfinite(feat.result.val[key])

\* C4 as stated: features called with min_base > max_base fails with a
\* validation error; it never returns a mapping.
C4_InvalidRangeRaises ==
    (feat.pc = "done" /\ feat.min_base > feat.max_base) => feat.result.err # ""

\* C4 as amended: features called with min_base > max_base raises nothing:
\* for a scalar x it returns the mapping with the one key 'number', holding
\* float(x); for a collection it returns the mapping with the one key
\* 'number' holding the floats of the elements in order (no key at all for
\* an empty collection).  No base is looked at, so neither a base below 2
\* nor a negative number is reported.
C4_InvalidRangeReturnsNumberOnly ==
    (feat.pc = "done" /\ feat.min_base > feat.max_base)
        => /\ feat.result.err = ""
           /\ ~feat.arg.iterable =>
                 feat.result.val = [key \in {NumberKey} |-> Float(feat.arg.number, 1)]
           /\ feat.arg.iterable =>
                 feat.result.val =
                    [key \in (IF feat.arg.items = <<>> THEN {} ELSE {NumberKey}) |->
                        [i \in 1..Len(feat.arg.items) |-> Float(feat.arg.items[i], 1)]]

C4_Witness ==
    /\ feat.pc = "done" /\ ~feat.arg.iterable /\ feat.arg.number = 5
    /\ feat.min_base = 3 /\ feat.max_base = 2
    /\ DOMAIN feat.result.val = {NumberKey}

\* every element of the collection is one _features_number succeeds on
AllScalarsSucceed ==
    \A i \in 1..Len(feat.arg.items) :
        _features_number(feat.arg.items[i], feat.min_base, feat.max_base).err = ""

\* the mapping has the keys of the scalar mapping, each with a sequence of
\* length N whose i-th entry is the scalar value of that key for element i
AlignedWithScalars ==
    /\ feat.result.err = ""
    /\ DOMAIN feat.result.val = FeatureKeys(feat.min_base..feat.max_base)
    /\ \A i \in 1..Len(feat.arg.items) :
          DOMAIN feat.result.val
             = DOMAIN _features_number(feat.arg.items[i], feat.min_base, feat.max_base).val
    /\ \A key \in DOMAIN feat.result.val :
          /\ Len(feat.result.val[key]) = Len(feat.arg.items)
          /\ \A i \in 1..Len(feat.arg.items) :
                feat.result.val[key][i]
                   = _features_number(feat.arg.items[i], feat.min_base,
                                      feat.max_base).val[key]

\* C10 as stated: for a collection of N numbers on each of which the scalar
\* extraction succeeds, features returns a mapping with exactly the keys of
\* the scalar mapping, every key mapped to a sequence of length N aligned
\* with the per-element scalar values; the logging changes nothing.
C10_CollectionAligned ==
    (feat.pc = "done" /\ feat.arg.iterable /\ AllScalarsSucceed) => AlignedWithScalars

\* C10 as amended: the same for N >= 1; for N = 0 the mapping returned is
\* empty (it has no key, not the keys of the scalar mapping).
C10_NonEmptyCollectionAligned ==
    (feat.pc = "done" /\ feat.arg.iterable /\ AllScalarsSucceed)
        => IF Len(feat.arg.items) >= 1 THEN AlignedWithScalars
           ELSE feat.result.err = "" /\ DOMAIN feat.result.val = {}

C10_Witness ==
    /\ feat.pc = "done" /\ feat.arg.iterable /\ feat.arg.items = <<2, 3>>
    /\ feat.min_base = 2 /\ feat.max_base = 3
    /\ feat.result.err = ""
    /\ feat.result.val[<<"number_of_digits", 2>>] = <<Float(2, 1), Float(2, 1)>>
    /\ feat.result.val[<<"digits_mean", 3>>] = <<Float(2, 1), Float(1, 2)>>
    /\ Len(feat.log) = 2

(***************************************************************************)
(* The whole module: any one of the calls above.                           *)
(***************************************************************************)
Init == InitPrimes \/ InitPairs \/ InitImb \/ InitDigits \/ InitFeatures

Next == NextPrimes \/ NextPairs \/ NextImb \/ NextDigits \/ NextFeatures

Spec == Init /\ [][Next]_vars

====
